---- MODULE Spec2Model ----
(***************************************************************************)
(* gocommit: a CLI that reads the staged diff, asks an Ollama server for   *)
(* commit-message suggestions, lets the operator pick or edit one on       *)
(* standard input and runs git commit with it (src/main.go).               *)
(*                                                                         *)
(* A Go string is modelled as a sequence of one-character strings, so      *)
(* that trimming, splitting, JSON decoding and integer scanning are        *)
(* computed character by character as the library routines compute them.   *)
(***************************************************************************)
EXTENDS Integers, Sequences, FiniteSets, TLC

VARIABLES
    pc,        \* where main is
    count,     \* *count, the -n flag
    content,   \* out.Message.Content, the model's reply
    parsed,    \* what parseSuggestions returned to requestSuggestions
    perr,      \* the error requestSuggestions returned ("nil" for none)
    msgs,      \* the suggestion list main holds
    eof,       \* standard input is exhausted
    line,      \* the last line ReadString returned, as read
    rerr,      \* the error of the last ReadString ("nil", "EOF")
    editing,   \* promptEdit has been entered
    echo,      \* what the selector printed last, the prompt aside
    chosen,    \* the message the selector returned
    exit,      \* the exit status, -1 while the run lasts
    errmsg,    \* what fatal printed after "error:"
    steps,     \* the steps taken so far, in order
    commits,   \* how often git commit was run
    usage      \* flag.Parse printed the usage text

vars == <<pc, count, content, parsed, perr, msgs, eof, line, rerr, editing,
          echo, chosen, exit, errmsg, steps, commits, usage>>

(***************************************************************************)
(* Bounds of the model.                                                    *)
(***************************************************************************)
\* longest messages array / line list the model response is built from
MaxEntries == 3
\* largest value of the -n flag that is tried (the smallest is -1)
MaxFlag == 4

(***************************************************************************)
(* Characters.                                                             *)
(***************************************************************************)
\* the printable ASCII characters, U+0020 to U+007E in order, U+0060 left out
Ascii ==
    <<" ", "!", "\"", "#", "$", "%", "&", "'", "(", ")", "*", "+", ",",
      "-", ".", "/", "0", "1", "2", "3", "4", "5", "6", "7", "8", "9",
      ":", ";", "<", "=", ">", "?", "@", "A", "B", "C", "D", "E", "F",
      "G", "H", "I", "J", "K", "L", "M", "N", "O", "P", "Q", "R", "S",
      "T", "U", "V", "W", "X", "Y", "Z", "[", "\\", "]", "^", "_", 
      "a", "b", "c", "d", "e", "f", "g", "h", "i", "j", "k", "l", "m",
      "n", "o", "p", "q", "r", "s", "t", "u", "v", "w", "x", "y", "z",
      "{", "|", "}", "~">>

\* the character with code point n: itself where TLA+ can write it, a name
\* made of the code point otherwise
Chr(n) ==
    CASE n >= 32 /\ n <= 95 -> Ascii[n - 31]
      [] n >= 97 /\ n <= 126 -> Ascii[n - 32]
      [] n = 9 -> "\t"
      [] n = 10 -> "\n"
      [] n = 12 -> "\f"
      [] n = 13 -> "\r"
      [] OTHER -> "U+" \o ToString(n)

\* the code points unicode.IsSpace accepts
SpaceCodes ==
    {9, 10, 11, 12, 13, 32, 133, 160, 5760, 8232, 8233, 8239, 8287, 12288}
      \cup (8192..8202)

\* unicode.IsSpace (strings.TrimSpace)
Space == {Chr(n) : n \in SpaceCodes}

\* the whitespace encoding/json skips between tokens
JsonSpace == {" ", "\t", "\n", "\r"}

\* characters encoding/json rejects inside a string literal (below 0x20)
Control == {Chr(n) : n \in 0..31}

Digits == <<"0", "1", "2", "3", "4", "5", "6", "7", "8", "9">>

IsDigit(c) == \E d \in 1..10 : Digits[d] = c

DigitVal(c) == (CHOOSE d \in 1..10 : Digits[d] = c) - 1

Upper == <<"A", "B", "C", "D", "E", "F", "G", "H", "I", "J", "K", "L", "M",
           "N", "O", "P", "Q", "R", "S", "T", "U", "V", "W", "X", "Y", "Z">>

Lower == <<"a", "b", "c", "d", "e", "f", "g", "h", "i", "j", "k", "l", "m",
           "n", "o", "p", "q", "r", "s", "t", "u", "v", "w", "x", "y", "z">>

\* simple case folding of one character: the letters A-Z, and the two
\* characters beyond ASCII that fold to an ASCII letter (U+017F to s, U+212A
\* to k)
ToLower(c) ==
    IF \E k \in 1..26 : Upper[k] = c
    THEN Lower[CHOOSE k \in 1..26 : Upper[k] = c]
    ELSE IF c = Chr(383) THEN "s"
    ELSE IF c = Chr(8490) THEN "k"
    ELSE c

\* strings.EqualFold; encoding/json matches an object key to a field name
\* under the same folding
EqualFold(s, t) ==
    /\ Len(s) = Len(t)
    /\ \A k \in 1..Len(s) : ToLower(s[k]) = ToLower(t[k])

(***************************************************************************)
(* package strings                                                         *)
(***************************************************************************)
\* strings.TrimLeft(s, cutset)
RECURSIVE TrimLeft(_, _)
TrimLeft(s, cutset) ==
    IF s # <<>> /\ s[1] \in cutset THEN TrimLeft(Tail(s), cutset) ELSE s

RECURSIVE TrimRight(_, _)
TrimRight(s, cutset) ==
    IF s # <<>> /\ s[Len(s)] \in cutset
    THEN TrimRight(SubSeq(s, 1, Len(s) - 1), cutset)
    ELSE s

\* strings.TrimSpace(s)
TrimSpace(s) == TrimRight(TrimLeft(s, Space), Space)

\* index of the first sep in s, 0 when there is none
IndexOf(s, sep) ==
    IF \E k \in 1..Len(s) : s[k] = sep
    THEN CHOOSE k \in 1..Len(s) : s[k] = sep /\ \A j \in 1..(k - 1) : s[j] # sep
    ELSE 0

\* strings.Split(s, sep) for a one-character sep
RECURSIVE Split(_, _)
Split(s, sep) ==
    LET k == IndexOf(s, sep) IN
    IF k = 0 THEN <<s>>
    ELSE <<SubSeq(s, 1, k - 1)>> \o Split(SubSeq(s, k + 1, Len(s)), sep)

(***************************************************************************)
(* encoding/json: json.Unmarshal(data, &payload) for suggestionsPayload.   *)
(* The text is first checked to be one JSON value (a syntax error leaves   *)
(* the payload untouched); the value is then stored into the payload,      *)
(* where a value of the wrong type is a type error.  A JSON value is a     *)
(* record [kind, str, items, fields].                                      *)
(***************************************************************************)
JVal(k, s, it, fl) == [kind |-> k, str |-> s, items |-> it, fields |-> fl]

JNull == JVal("null", <<>>, <<>>, <<>>)

JFail == [ok |-> FALSE, next |-> 0, val |-> JNull]

JOk(n, v) == [ok |-> TRUE, next |-> n, val |-> v]

\* the character at position i, "" past the end
At(s, i) == IF i >= 1 /\ i <= Len(s) THEN s[i] ELSE ""

RECURSIVE SkipWS(_, _)
SkipWS(s, i) == IF At(s, i) \in JsonSpace THEN SkipWS(s, i + 1) ELSE i

RECURSIVE SkipDigits(_, _)
SkipDigits(s, i) == IF IsDigit(At(s, i)) THEN SkipDigits(s, i + 1) ELSE i

\* the characters that may follow a backslash in a string literal
Escapes == {"\"", "\\", "/", "b", "f", "n", "r", "t", "u"}

\* what a one-character escape denotes
Unescape(c) ==
    CASE c = "b" -> Chr(8)
      [] c = "f" -> "\f"
      [] c = "n" -> "\n"
      [] c = "r" -> "\r"
      [] c = "t" -> "\t"
      [] OTHER -> c

HexDigits == <<"0", "1", "2", "3", "4", "5", "6", "7", "8", "9",
               "a", "b", "c", "d", "e", "f">>

IsHex(c) == \E d \in 1..16 : HexDigits[d] = c \/ (d > 10 /\ Upper[d - 10] = c)

HexVal(c) ==
    (CHOOSE d \in 1..16 : HexDigits[d] = c \/ (d > 10 /\ Upper[d - 10] = c)) - 1

\* getu4: the code unit of the \uXXXX escape at position j, -1 when there is
\* no such escape there
Getu4(s, j) ==
    IF At(s, j) = "\\" /\ At(s, j + 1) = "u" /\ \A k \in 2..5 : IsHex(At(s, j + k))
    THEN 4096 * HexVal(At(s, j + 2)) + 256 * HexVal(At(s, j + 3))
           + 16 * HexVal(At(s, j + 4)) + HexVal(At(s, j + 5))
    ELSE 0 - 1

\* unicode.ReplacementChar, U+FFFD
ReplacementChar == 65533

\* utf16.IsSurrogate: U+D800 to U+DFFF
IsSurrogate(r) == r >= 55296 /\ r < 57344

\* utf16.DecodeRune: the code point of a high and a low surrogate, U+FFFD for
\* any other pair
DecodeRune(r1, r2) ==
    IF r1 >= 55296 /\ r1 < 56320 /\ r2 >= 56320 /\ r2 < 57344
    THEN (r1 - 55296) * 1024 + (r2 - 56320) + 65536
    ELSE ReplacementChar

RECURSIVE ScanString(_, _, _), ScanU4(_, _, _, _), ScanPair(_, _, _, _)

\* the rest of a string literal whose opening quote is before position j
ScanString(s, j, acc) ==
    IF At(s, j) = "" THEN JFail
    ELSE IF At(s, j) = "\"" THEN JOk(j + 1, JVal("string", acc, <<>>, <<>>))
    ELSE IF At(s, j) = "\\"
         THEN IF At(s, j + 1) = "u" THEN ScanU4(s, j, acc, Getu4(s, j))
              ELSE IF At(s, j + 1) \in Escapes
              THEN ScanString(s, j + 2, Append(acc, Unescape(At(s, j + 1))))
              ELSE JFail
    ELSE IF At(s, j) \in Control THEN JFail
    ELSE ScanString(s, j + 1, Append(acc, At(s, j)))

\* a \uXXXX escape at position j with code unit rr: a surrogate is decoded
\* with the escape that follows it
ScanU4(s, j, acc, rr) ==
    IF rr < 0 THEN JFail
    ELSE IF IsSurrogate(rr)
         THEN ScanPair(s, j, acc, DecodeRune(rr, Getu4(s, j + 6)))
    ELSE ScanString(s, j + 6, Append(acc, Chr(rr)))

\* a surrogate at position j: a valid pair is one character and both escapes
\* are consumed, anything else is U+FFFD for the first escape alone
ScanPair(s, j, acc, dec) ==
    IF dec # ReplacementChar
    THEN ScanString(s, j + 12, Append(acc, Chr(dec)))
    ELSE ScanString(s, j + 6, Append(acc, Chr(ReplacementChar)))

\* a number: -? (0 | [1-9][0-9]*) (. [0-9]+)? ([eE] [+-]? [0-9]+)?
\* NumberEnd: the exponent's digits run from e to d
NumberEnd(e, d) ==
    IF d = e THEN JFail ELSE JOk(d, JVal("number", <<>>, <<>>, <<>>))

\* NumberExp: the number is read up to c; e is where an exponent's digits start
NumberExp(s, c, e) ==
    IF e = c THEN JOk(c, JVal("number", <<>>, <<>>, <<>>))
    ELSE NumberEnd(e, SkipDigits(s, e))

ExponentStart(s, c) ==
    IF At(s, c) \in {"e", "E"}
    THEN IF At(s, c + 1) \in {"+", "-"} THEN c + 2 ELSE c + 1
    ELSE c

\* NumberFrac: the integer part ends before b, the fraction before c
NumberFrac(s, b, c) ==
    IF At(s, b) = "." /\ c = b + 1 THEN JFail
    ELSE NumberExp(s, c, ExponentStart(s, c))

\* NumberInt: the integer part runs from a to b
NumberInt(s, a, b) ==
    IF b = a THEN JFail
    ELSE NumberFrac(s, b, IF At(s, b) = "." THEN SkipDigits(s, b + 1) ELSE b)

NumberFrom(s, a) ==
    NumberInt(s, a, IF At(s, a) = "0" THEN a + 1 ELSE SkipDigits(s, a))

ScanNumber(s, i) == NumberFrom(s, IF At(s, i) = "-" THEN i + 1 ELSE i)

ScanLiteral(s, i, word, kind) ==
    IF i + Len(word) - 1 <= Len(s) /\ SubSeq(s, i, i + Len(word) - 1) = word
    THEN JOk(i + Len(word), JVal(kind, <<>>, <<>>, <<>>))
    ELSE JFail

RECURSIVE ScanValue(_, _), ScanElems(_, _, _), ElemsAfter(_, _, _),
          ElemsSep(_, _, _), ScanMembers(_, _, _), MemberKey(_, _, _),
          MemberColon(_, _, _, _), MemberValue(_, _, _, _), MemberSep(_, _, _)

\* after the opening bracket and whitespace
ArrayFrom(s, j) ==
    IF At(s, j) = "]" THEN JOk(j + 1, JVal("array", <<>>, <<>>, <<>>))
    ELSE ScanElems(s, j, <<>>)

\* after the opening brace and whitespace
ObjectFrom(s, j) ==
    IF At(s, j) = "}" THEN JOk(j + 1, JVal("object", <<>>, <<>>, <<>>))
    ELSE ScanMembers(s, j, <<>>)

\* one JSON value starting at position i (no leading whitespace)
ScanValue(s, i) ==
    CASE At(s, i) = "{" -> ObjectFrom(s, SkipWS(s, i + 1))
      [] At(s, i) = "[" -> ArrayFrom(s, SkipWS(s, i + 1))
      [] At(s, i) = "\"" -> ScanString(s, i + 1, <<>>)
      [] At(s, i) = "-" \/ IsDigit(At(s, i)) -> ScanNumber(s, i)
      [] At(s, i) = "t" -> ScanLiteral(s, i, <<"t", "r", "u", "e">>, "bool")
      [] At(s, i) = "f" -> ScanLiteral(s, i, <<"f", "a", "l", "s", "e">>, "bool")
      [] At(s, i) = "n" -> ScanLiteral(s, i, <<"n", "u", "l", "l">>, "null")
      [] OTHER -> JFail

\* the elements of an array from position j on, up to the closing bracket:
\* a value, then a comma and more elements, or the closing bracket
ScanElems(s, j, acc) == ElemsAfter(s, ScanValue(s, j), acc)

ElemsAfter(s, v, acc) ==
    IF ~v.ok THEN JFail ELSE ElemsSep(s, SkipWS(s, v.next), Append(acc, v.val))

ElemsSep(s, k, acc) ==
    IF At(s, k) = "," THEN ScanElems(s, SkipWS(s, k + 1), acc)
    ELSE IF At(s, k) = "]" THEN JOk(k + 1, JVal("array", <<>>, acc, <<>>))
    ELSE JFail

\* the members of an object from position j on, up to the closing brace:
\* a string key, a colon, a value, then a comma and more members, or the brace
ScanMembers(s, j, acc) ==
    IF At(s, j) # "\"" THEN JFail
    ELSE MemberKey(s, ScanString(s, j + 1, <<>>), acc)

MemberKey(s, key, acc) ==
    IF ~key.ok THEN JFail
    ELSE MemberColon(s, key.val.str, SkipWS(s, key.next), acc)

MemberColon(s, name, k, acc) ==
    IF At(s, k) # ":" THEN JFail
    ELSE MemberValue(s, name, ScanValue(s, SkipWS(s, k + 1)), acc)

MemberValue(s, name, v, acc) ==
    IF ~v.ok THEN JFail
    ELSE MemberSep(s, SkipWS(s, v.next),
                   Append(acc, [key |-> name, val |-> v.val]))

MemberSep(s, m, fl) ==
    IF At(s, m) = "," THEN ScanMembers(s, SkipWS(s, m + 1), fl)
    ELSE IF At(s, m) = "}" THEN JOk(m + 1, JVal("object", <<>>, <<>>, fl))
    ELSE JFail

\* the whole text is one JSON value between optional whitespace
DocumentEnd(data, v) ==
    IF v.ok /\ SkipWS(data, v.next) = Len(data) + 1 THEN v ELSE JFail

ScanDocument(data) == DocumentEnd(data, ScanValue(data, SkipWS(data, 1)))

MessagesKey == <<"m", "e", "s", "s", "a", "g", "e", "s">>

\* a JSON array stored into a []string whose backing array holds old (the
\* slice's elements and what earlier, longer contents left behind its length):
\* a string is stored; null, and an element of another type (a type error),
\* leave the element as the backing array has it, "" where nothing was ever
\* stored.  An empty array makes a fresh empty slice.
StoreStrings(items, old) ==
    [err |-> \E k \in 1..Len(items) : items[k].kind \notin {"string", "null"},
     list |-> [k \in 1..Len(items) |->
                  IF items[k].kind = "string" THEN items[k].str
                  ELSE IF k <= Len(old) THEN old[k] ELSE <<>>],
     spare |-> IF Len(items) = 0 THEN <<>>
               ELSE SubSeq(old, Len(items) + 1, Len(old))]

\* the payload before anything is stored: Messages is nil; spare is what the
\* backing array of Messages holds behind its length
ZeroPayload == [err |-> FALSE, Messages |-> <<>>, spare |-> <<>>]

\* the members of an object stored into the payload in order: a key that is
\* "messages" in any letter case sets Messages, every other key is ignored
RECURSIVE StoreFields(_, _, _)
\* StoreArray: the array st, already converted, becomes Messages
StoreArray(fields, k, acc, st) ==
    StoreFields(fields, k + 1,
                [err |-> acc.err \/ st.err, Messages |-> st.list,
                 spare |-> st.spare])

StoreFields(fields, k, acc) ==
    IF k > Len(fields) THEN acc
    ELSE IF ~EqualFold(fields[k].key, MessagesKey)
         THEN StoreFields(fields, k + 1, acc)
    ELSE IF fields[k].val.kind = "array"
         THEN StoreArray(fields, k, acc,
                         StoreStrings(fields[k].val.items,
                                      acc.Messages \o acc.spare))
    ELSE IF fields[k].val.kind = "null"
         THEN StoreFields(fields, k + 1,
                          [acc EXCEPT !.Messages = <<>>, !.spare = <<>>])
    ELSE StoreFields(fields, k + 1, [acc EXCEPT !.err = TRUE])

\* the checked document stored into a zero payload: an object by its members,
\* null changes nothing, any other value is a type error
StoreDocument(doc) ==
    IF ~doc.ok THEN [ZeroPayload EXCEPT !.err = TRUE]
    ELSE IF doc.val.kind = "object"
         THEN StoreFields(doc.val.fields, 1, ZeroPayload)
    ELSE IF doc.val.kind = "null" THEN ZeroPayload
    ELSE [ZeroPayload EXCEPT !.err = TRUE]

\* json.Unmarshal([]byte(content), &payload): err and payload.Messages
Unmarshal(data) == StoreDocument(ScanDocument(data))

(***************************************************************************)
(* The suggestion parser.                                                  *)
(***************************************************************************)
\* normalizeMessages' loop: m is the next entry trimmed, out the result so far
RECURSIVE Normalize(_, _)
NormalizeEntry(rest, out, m) ==
    IF m = <<>> \/ (\E k \in 1..Len(out) : out[k] = m)
    THEN Normalize(rest, out)
    ELSE Normalize(rest, Append(out, m))

Normalize(list, out) ==
    IF list = <<>> THEN out
    ELSE NormalizeEntry(Tail(list), out, TrimSpace(Head(list)))

\* a normalizeMessages that looks the entry up among those seen before it is
\* trimmed
RECURSIVE NormalizeSeenRaw(_, _)
NormalizeSeenRaw(list, out) ==
    IF list = <<>> THEN out
    ELSE IF TrimSpace(Head(list)) = <<>> \/ (\E k \in 1..Len(out) : out[k] = Head(list))
         THEN NormalizeSeenRaw(Tail(list), out)
    ELSE NormalizeSeenRaw(Tail(list), Append(out, TrimSpace(Head(list))))

normalizeSeenRaw(list) == NormalizeSeenRaw(list, <<>>)

\* normalizeMessages: trim, drop empty entries and later duplicates
normalizeMessages(list) == Normalize(list, <<>>)

\* the characters stripped from the front of a line in the fallback
Cutset == {"-", "0", "1", "2", "3", "4", "5", "6", "7", "8", "9", ".", " "}

\* a fallback loop that only trims the lines and leaves their numbering
RECURSIVE FallbackLinesNoStrip(_)
FallbackLinesNoStrip(lines) ==
    IF lines = <<>> THEN <<>>
    ELSE IF TrimSpace(Head(lines)) # <<>>
         THEN <<TrimSpace(Head(lines))>> \o FallbackLinesNoStrip(Tail(lines))
    ELSE FallbackLinesNoStrip(Tail(lines))

\* the fallback's loop over the lines: strip, trim, keep what is not empty
RECURSIVE FallbackLines(_)
FallbackLine(l, rest) ==
    IF l # <<>> THEN <<l>> \o FallbackLines(rest) ELSE FallbackLines(rest)

FallbackLines(lines) ==
    IF lines = <<>> THEN <<>>
    ELSE FallbackLine(TrimSpace(TrimLeft(Head(lines), Cutset)), Tail(lines))

\* a fallback that returns the empty list instead of the error
FallbackNoError(ls) == [msgs |-> normalizeMessages(ls), err |-> "nil"]

\* the fallback of parseSuggestions: ls are the lines kept
Fallback(ls) ==
    IF Len(ls) = 0 THEN [msgs |-> <<>>, err |-> "could not parse suggestions"]
    ELSE [msgs |-> normalizeMessages(ls), err |-> "nil"]

\* a JSON attempt whose entries are returned as decoded, not normalized
ParseAttemptRaw(c, payload) ==
    IF ~payload.err /\ Len(payload.Messages) > 0
    THEN [msgs |-> payload.Messages, err |-> "nil"]
    ELSE Fallback(FallbackLines(Split(c, "\n")))

\* parseSuggestions after the JSON attempt: c is the trimmed content
ParseAttempt(c, payload) ==
    IF ~payload.err /\ Len(payload.Messages) > 0
    THEN [msgs |-> normalizeMessages(payload.Messages), err |-> "nil"]
    ELSE Fallback(FallbackLines(Split(c, "\n")))

ParseTrimmed(c) ==
    IF c = <<>> THEN [msgs |-> <<>>, err |-> "empty response from model"]
    ELSE ParseAttempt(c, Unmarshal(c))

\* parseSuggestions(content): the list and the error ("nil" for none)
parseSuggestions(text) == ParseTrimmed(TrimSpace(text))

(***************************************************************************)
(* The interactive selector's helpers.                                     *)
(***************************************************************************)
\* the number a run of digits denotes
RECURSIVE Decimal(_, _)
Decimal(ds, acc) ==
    IF ds = <<>> THEN acc ELSE Decimal(Tail(ds), 10 * acc + DigitVal(Head(ds)))

\* scanNumber with the digits of the verb %d, "0123456789"
RECURSIVE SkipNumber(_, _)
SkipNumber(s, i) == IF IsDigit(At(s, i)) THEN SkipNumber(s, i + 1) ELSE i

\* fmt.Sscanf(s, "%d", &n): leading blanks are skipped (a line feed there is
\* an error), one sign is taken, then the longest run of decimal digits,
\* which strconv.ParseInt reads in base 10; what follows the run, an
\* underscore included, is left unread and is no error.  The lines of the
\* model are short, so the number always fits an int.
Sscanf(s) ==
    LET t == TrimLeft(s, Space \ {"\n"})
        a == IF At(t, 1) \in {"+", "-"} THEN 2 ELSE 1
        b == SkipNumber(t, a)
        tok == SubSeq(t, a, b - 1)
    IN  IF b = a
        THEN [ok |-> FALSE, n |-> 0]
        ELSE [ok |-> TRUE,
              n |-> IF At(t, 1) = "-" THEN 0 - Decimal(tok, 0) ELSE Decimal(tok, 0)]

\* a parseChoice whose range check leaves out the last suggestion
parseChoiceExclusive(s, max) ==
    IF Len(s) = 0 \/ ~Sscanf(s).ok \/ Sscanf(s).n < 1 \/ Sscanf(s).n >= max
    THEN [idx |-> 0, err |-> TRUE]
    ELSE [idx |-> Sscanf(s).n - 1, err |-> FALSE]

\* parseChoice(s, max): the index (from 0) and whether there was an error
parseChoice(s, max) ==
    IF Len(s) = 0 THEN [idx |-> 0, err |-> TRUE]
    ELSE LET r == Sscanf(s) IN
         IF ~r.ok THEN [idx |-> 0, err |-> TRUE]
         ELSE IF r.n < 1 \/ r.n > max THEN [idx |-> 0, err |-> TRUE]
         ELSE [idx |-> r.n - 1, err |-> FALSE]

(***************************************************************************)
(* The environment's inputs.                                               *)
(***************************************************************************)
\* the values of the -n flag
FlagValues == (0 - 1)..MaxFlag

\* the argument that sets the -n flag to v
NFlag(v) == "-n=" \o ToString(v)

\* the command line: nothing, -n with a value, a request for help, a flag
\* that is not defined, -n with a value that is no integer or with none
Arguments ==
    {"", "-h", "-help", "-x", "-n=abc", "-n"} \cup {NFlag(v) : v \in FlagValues}

\* the entries a generated reply is built from
Entries == {<<"x">>, <<" ", "x", " ">>, <<"y">>, <<>>, <<" ">>}

RECURSIVE ListsUpTo(_)
ListsUpTo(n) ==
    IF n = 0 THEN {<<>>}
    ELSE LET shorter == ListsUpTo(n - 1) IN
         shorter \cup {Append(l, e) : l \in {m \in shorter : Len(m) = n - 1},
                                      e \in Entries}

Lists == ListsUpTo(MaxEntries)

RECURSIVE Join(_, _)
Join(list, sep) ==
    IF list = <<>> THEN <<>>
    ELSE IF Len(list) = 1 THEN list[1]
    ELSE list[1] \o sep \o Join(Tail(list), sep)

Quote(s) == <<"\"">> \o s \o <<"\"">>

\* a JSON array of strings, sep between the elements
JsonArray(list, sep) ==
    <<"[">> \o Join([k \in 1..Len(list) |-> Quote(list[k])], sep) \o <<"]">>

\* {"key":array}
JsonObject(key, array) == <<"{">> \o Quote(key) \o <<":">> \o array \o <<"}">>

\* the reply of the given form built from a list of entries
Render(form, list) ==
    CASE form = "json" -> JsonObject(MessagesKey, JsonArray(list, <<",">>))
      [] form = "spaced" ->
           <<" ", "{", " ">> \o Quote(MessagesKey) \o <<" ", ":", " ">>
             \o JsonArray(list, <<" ", ",", "\n">>) \o <<" ", "}", "\n">>
      [] form = "folded" ->
           JsonObject(<<"M", "e", "s", "s", "a", "g", "e", "s">>,
                      JsonArray(list, <<",">>))
      [] form = "open" ->
           <<"{">> \o Quote(MessagesKey) \o <<":">> \o JsonArray(list, <<",">>)
      [] form = "typed" ->
           JsonObject(MessagesKey,
                      <<"[">> \o Join([k \in 1..Len(list) |-> Quote(list[k])]
                                        \o <<<<"7">>>>, <<",">>) \o <<"]">>)
      [] form = "numbered" ->
           Join([k \in 1..Len(list) |-> <<Digits[k + 1], ".", " ">> \o list[k]],
                <<"\n">>)
      [] form = "bullets" ->
           Join([k \in 1..Len(list) |-> <<"-", " ">> \o list[k]], <<"\n">>)
      [] form = "plain" -> Join(list, <<"\n">>)

\* JSON with the messages array the documentation asks for
JsonForms == {"json", "spaced"}

\* one suggestion a line
LineForms == {"numbered", "bullets", "plain"}

\* JSON that does not decode: the object is not closed, the array holds a number
BrokenForms == {"open", "typed"}

\* the lists the replies that do not decode are written from
BrokenLists == {l \in Lists : Len(l) <= 2}

\* lists given as such: the documentation's example of duplicates, and more
\* distinct suggestions than any count allows
FixedLists ==
    { <<<<"a">>, <<" ", "a", " ">>, <<"b">>>>,
      <<<<"a">>, <<"b">>, <<"c">>, <<"d">>, <<"a">>>> }

\* the numbered list of the documentation and of TestParseSuggestionsFallback
NumberedExample ==
    <<"1", ".", " ", "a", "d", "d", " ", "x", "\n",
      "2", ".", " ", "f", "i", "x", " ", "y">>

\* JSON whose strings are written with escapes: x as \u0078 with a tab after
\* it, then x; the list it encodes
EscapedReply ==
    JsonObject(MessagesKey,
               <<"[">> \o Quote(<<"\\", "u", "0", "0", "7", "8", "\\", "t">>)
                 \o <<",">> \o Quote(<<"x">>) \o <<"]">>)

EscapedList == << <<"x", "\t">>, <<"x">> >>

\* JSON with the messages key three times: the last array holds null only,
\* and its elements are what the earlier arrays left in the slice
RepeatedReply ==
    <<"{">> \o Quote(MessagesKey) \o <<":">>
      \o JsonArray(<<<<"x">>, <<"y">>>>, <<",">>) \o <<",">>
      \o Quote(MessagesKey) \o <<":">> \o JsonArray(<<<<"z">>>>, <<",">>)
      \o <<",">> \o Quote(MessagesKey)
      \o <<":", "[", "n", "u", "l", "l", ",", "n", "u", "l", "l", "]", "}">>

\* replies given as such: JSON without a messages array, and replies with no
\* usable line
FixedTexts ==
    { NumberedExample,
      EscapedReply,
      RepeatedReply,
      <<"{">> \o Quote(MessagesKey) \o <<":", "n", "u", "l", "l", "}">>,
      <<"n", "u", "l", "l">>,
      <<"-", "-", "-">>,
      <<"1", ".", "\n", " ", "2", ".", " ", "\n", "-">>,
      <<"7">>,
      <<"\t", "\n">> }

Contents ==
    {Render(f, l) : f \in JsonForms \cup LineForms \cup {"folded"}, l \in Lists}
      \cup {Render(f, l) : f \in BrokenForms, l \in BrokenLists}
      \cup {Render("json", l) : l \in FixedLists}
      \cup FixedTexts

\* the lines the operator types, without the line end
Typed ==
    { <<>>, <<" ">>, <<"1">>, <<"2">>, <<"3">>, <<"5">>, <<"0">>, <<"e">>, <<"E">>,
      <<" ", "2", " ">>, <<"2", "x">>, <<"+", "1">>, <<"-", "1">>, <<"x">>,
      <<" ", "h", "i", " ">>, <<" ", "e", "\r">>, <<"1", "_">> }

(***************************************************************************)
(* main                                                                    *)
(***************************************************************************)
Header == "Choose 1-3 or type 'e' to edit:"

Invalid == "Invalid choice. Try again."

EnterMessage == "Enter commit message:"

Committed == "Committed:"

\* the state when main calls flag.Parse: -n has its default
Init ==
    /\ pc = "parse"
    /\ count = 3
    /\ content = <<>>
    /\ parsed = <<>>
    /\ perr = "nil"
    /\ msgs = <<>>
    /\ eof = FALSE
    /\ line = <<>>
    /\ rerr = "nil"
    /\ editing = FALSE
    /\ echo = ""
    /\ chosen = <<>>
    /\ exit = 0 - 1
    /\ errmsg = ""
    /\ steps = <<>>
    /\ commits = 0
    /\ usage = FALSE

\* fatal(err): print the error and exit with status 1
Fatal(e) ==
    /\ pc' = "exit"
    /\ exit' = 1
    /\ errmsg' = e

\* flag.Parse on the command line (flag.CommandLine exits on an error): -h
\* and -help print the usage and end the run with status 0, an undefined flag
\* or an unusable value prints the error and the usage and ends it with
\* status 2, otherwise -n is set when it is given
FlagParse ==
    /\ pc = "parse"
    /\ \E a \in Arguments :
         IF a \in {"-h", "-help"}
         THEN pc' = "exit" /\ exit' = 0 /\ usage' = TRUE /\ UNCHANGED count
         ELSE IF a = ""
         THEN pc' = "flags" /\ UNCHANGED <<count, exit, usage>>
         ELSE IF \E v \in FlagValues : a = NFlag(v)
         THEN /\ pc' = "flags"
              /\ count' = CHOOSE v \in FlagValues : a = NFlag(v)
              /\ UNCHANGED <<exit, usage>>
         ELSE pc' = "exit" /\ exit' = 2 /\ usage' = TRUE /\ UNCHANGED count
    /\ UNCHANGED <<content, parsed, perr, msgs, eof, line, rerr, editing, echo,
                   chosen, errmsg, steps, commits>>

\* a clamp without the upper limit
ClampCountNoUpper ==
    /\ pc = "flags"
    /\ count' = IF count < 1 THEN 1 ELSE count
    /\ pc' = "repo"
    /\ UNCHANGED <<usage, content, parsed, perr, msgs, eof, line, rerr, editing, echo,
                   chosen, exit, errmsg, steps, commits>>

\* main, after flag.Parse: the count is clamped to 1..3
ClampCount ==
    /\ pc = "flags"
    /\ count' = IF count < 1 THEN 1 ELSE IF count > 3 THEN 3 ELSE count
    /\ pc' = "repo"
    /\ UNCHANGED <<usage, content, parsed, perr, msgs, eof, line, rerr, editing, echo,
                   chosen, exit, errmsg, steps, commits>>

\* ensureGitRepo and main's check of it
EnsureGitRepo ==
    /\ pc = "repo"
    /\ steps' = Append(steps, "repo")
    /\ \/ pc' = "diff" /\ UNCHANGED <<exit, errmsg>>
       \/ Fatal("not a git repository")
    /\ UNCHANGED <<usage, count, content, parsed, perr, msgs, eof, line, rerr, editing,
                   echo, chosen, commits>>

\* stagedDiff and main's checks of it: git may fail, the diff may be blank
StagedDiff ==
    /\ pc = "diff"
    /\ steps' = Append(steps, "diff")
    /\ \/ pc' = "stat" /\ UNCHANGED <<exit, errmsg>>
       \/ Fatal("git diff --staged failed")
       \/ Fatal("no staged changes (git diff --staged is empty)")
    /\ UNCHANGED <<usage, count, content, parsed, perr, msgs, eof, line, rerr, editing,
                   echo, chosen, commits>>

\* stagedDiffStat and main's check of it
StagedDiffStat ==
    /\ pc = "stat"
    /\ steps' = Append(steps, "stat")
    /\ \/ pc' = "request" /\ UNCHANGED <<exit, errmsg>>
       \/ Fatal("git diff --staged --stat failed")
    /\ UNCHANGED <<usage, count, content, parsed, perr, msgs, eof, line, rerr, editing,
                   echo, chosen, commits>>

\* a cut that keeps one entry too many
TruncateOneMore(list, n) == IF Len(list) > n THEN SubSeq(list, 1, n + 1) ELSE list

\* msgs[:n] when there are more than n
Truncate(list, n) == IF Len(list) > n THEN SubSeq(list, 1, n) ELSE list

\* requestSuggestions: the exchange with the server fails, or the reply's
\* content is parsed and the list cut to n entries
RequestSuggestions ==
    /\ pc = "request"
    /\ pc' = "returned"
    /\ \/ /\ \E e \in {"ollama request", "ollama error", "decode response"} :
               perr' = e
          /\ steps' = Append(steps, "request")
          /\ UNCHANGED <<content, parsed, msgs>>
       \/ \E c \in Contents :
            LET r == parseSuggestions(c) IN
            /\ content' = c
            /\ parsed' = r.msgs
            /\ perr' = r.err
            /\ msgs' = IF r.err = "nil" THEN Truncate(r.msgs, count) ELSE <<>>
            /\ steps' = steps \o <<"request", "parse">>
    /\ UNCHANGED <<usage, count, eof, line, rerr, editing, echo, chosen, exit, errmsg,
                   commits>>

\* main's checks of what requestSuggestions returned; its locals are gone
CheckSuggestions ==
    /\ pc = "returned"
    /\ IF perr # "nil" THEN Fatal(perr) /\ UNCHANGED <<content, parsed>>
       ELSE IF Len(msgs) = 0
            THEN Fatal("no suggestions returned") /\ UNCHANGED <<content, parsed>>
       ELSE /\ pc' = "choose"
            /\ content' = <<>>
            /\ parsed' = <<>>
            /\ UNCHANGED <<exit, errmsg>>
    /\ UNCHANGED <<usage, count, perr, msgs, eof, line, rerr, editing, echo, chosen,
                   steps, commits>>

\* chooseMessage up to its loop: the list and the header are printed
ChooseStart ==
    /\ pc = "choose"
    /\ pc' = "read"
    /\ echo' = Header
    /\ steps' = Append(steps, "select")
    /\ UNCHANGED <<usage, count, content, parsed, perr, msgs, eof, line, rerr, editing,
                   chosen, exit, errmsg, commits>>

\* reader.ReadString('\n') on standard input: a line with its line end, or at
\* the end of the input what is left of it (possibly nothing) with io.EOF
ReadString(l, e) ==
    /\ \/ /\ ~eof
          /\ \E t \in Typed : l = Append(t, "\n")
          /\ e = "nil"
          /\ eof' = FALSE
       \/ /\ ~eof
          /\ l \in Typed
          /\ e = "EOF"
          /\ eof' = TRUE
       \/ /\ eof
          /\ l = <<>>
          /\ e = "EOF"
          /\ eof' = TRUE

\* one turn of chooseMessage's loop
ChooseRead ==
    /\ pc = "read"
    /\ \/ /\ Fatal("read input")
          /\ UNCHANGED <<eof, line, rerr, editing, echo, chosen>>
       \/ \E l \in {Append(t, "\n") : t \in Typed} \cup Typed, e \in {"nil", "EOF"} :
            /\ ReadString(l, e)
            /\ line' = l
            /\ rerr' = e
            /\ LET t == TrimSpace(l) IN
               IF EqualFold(t, <<"e">>)
               THEN /\ pc' = "edit"
                    /\ editing' = TRUE
                    /\ echo' = EnterMessage
                    /\ UNCHANGED chosen
               ELSE IF t = <<>>
               THEN /\ echo' = ""
                    /\ UNCHANGED <<pc, editing, chosen>>
               ELSE LET r == parseChoice(t, Len(msgs)) IN
                    IF r.err
                    THEN /\ echo' = Invalid
                         /\ UNCHANGED <<pc, editing, chosen>>
                    ELSE /\ chosen' = msgs[r.idx + 1]
                         /\ pc' = "commit"
                         /\ echo' = ""
                         /\ UNCHANGED editing
            /\ UNCHANGED <<exit, errmsg>>
    /\ UNCHANGED <<usage, count, content, parsed, perr, msgs, steps, commits>>

\* a promptEdit that returns the line as read, line end aside
EditReadVerbatim ==
    /\ pc = "edit"
    /\ \E l \in {Append(t, "\n") : t \in Typed} \cup Typed, e \in {"nil", "EOF"} :
         /\ ReadString(l, e)
         /\ line' = l
         /\ rerr' = e
         /\ echo' = ""
         /\ IF TrimSpace(l) = <<>>
            THEN UNCHANGED <<pc, chosen>>
            ELSE chosen' = TrimRight(l, {"\n"}) /\ pc' = "commit"
    /\ UNCHANGED <<usage, count, content, parsed, perr, msgs, editing, steps, commits,
                   exit, errmsg>>

\* one turn of promptEdit's loop
EditRead ==
    /\ pc = "edit"
    /\ \/ /\ Fatal("read input")
          /\ UNCHANGED <<eof, line, rerr, echo, chosen>>
       \/ \E l \in {Append(t, "\n") : t \in Typed} \cup Typed, e \in {"nil", "EOF"} :
            /\ ReadString(l, e)
            /\ line' = l
            /\ rerr' = e
            /\ echo' = ""
            /\ LET t == TrimSpace(l) IN
               IF t = <<>>
               THEN UNCHANGED <<pc, chosen>>
               ELSE chosen' = t /\ pc' = "commit"
            /\ UNCHANGED <<exit, errmsg>>
    /\ UNCHANGED <<usage, count, content, parsed, perr, msgs, editing, steps, commits>>

\* a commit that is run again when it fails
GitCommitRetry ==
    /\ pc = "commit"
    /\ commits' = commits + 1
    /\ steps' = Append(steps, "commit")
    /\ \/ pc' = "exit" /\ exit' = 0 /\ echo' = Committed /\ UNCHANGED errmsg
       \/ commits < 2 /\ UNCHANGED <<pc, exit, errmsg, echo>>
    /\ UNCHANGED <<usage, count, content, parsed, perr, msgs, eof, line, rerr, editing,
                   chosen>>

\* gitCommit(chosen) and the end of main
GitCommit ==
    /\ pc = "commit"
    /\ commits' = commits + 1
    /\ steps' = Append(steps, "commit")
    /\ pc' = "exit"
    /\ \/ exit' = 0 /\ echo' = Committed /\ UNCHANGED errmsg
       \/ exit' = 1 /\ errmsg' = "git commit failed" /\ UNCHANGED echo
    /\ UNCHANGED <<usage, count, content, parsed, perr, msgs, eof, line, rerr, editing,
                   chosen>>

Next ==
    \/ FlagParse
    \/ ClampCount
    \/ EnsureGitRepo
    \/ StagedDiff
    \/ StagedDiffStat
    \/ RequestSuggestions
    \/ CheckSuggestions
    \/ ChooseStart
    \/ ChooseRead
    \/ EditRead
    \/ GitCommit

Spec == Init /\ [][Next]_vars

(***************************************************************************)
(* What the documentation says the parser computes, stated without the     *)
(* program's loops.                                                        *)
(***************************************************************************)
IsBlank(s) == \A k \in 1..Len(s) : s[k] \in Space

\* s without its leading and trailing whitespace
Trimmed(s) ==
    IF IsBlank(s) THEN <<>>
    ELSE LET ink == {k \in 1..Len(s) : s[k] \notin Space}
             lo == CHOOSE k \in ink : \A j \in ink : k <= j
             hi == CHOOSE k \in ink : \A j \in ink : k >= j
         IN  SubSeq(s, lo, hi)

\* the entries of a list trimmed, the blank ones and the repetitions of an
\* earlier one left out, in their order
Expected(list) ==
    LET t == [k \in 1..Len(list) |-> Trimmed(list[k])]
        keep == {k \in 1..Len(list) :
                    t[k] # <<>> /\ \A j \in 1..(k - 1) : t[j] # t[k]}
        nth(i) == CHOOSE k \in keep : Cardinality({j \in keep : j < k}) = i - 1
    IN  [i \in 1..Cardinality(keep) |-> t[nth(i)]]

HasEntry(list) == \E k \in 1..Len(list) : ~IsBlank(list[k])

\* a list of suggestions as main may hand it on: every entry non-empty and
\* trimmed, no entry twice
IsClean(list) ==
    /\ \A k \in 1..Len(list) :
         list[k] # <<>> /\ list[k][1] \notin Space /\ list[k][Len(list[k])] \notin Space
    /\ \A j, k \in 1..Len(list) : j # k => list[j] # list[k]

\* well-formed JSON replies {"messages":[...]} with the list each encodes
JsonInputs ==
    {[text |-> Render(f, l), list |-> l] : f \in JsonForms, l \in Lists \cup FixedLists}
      \cup {[text |-> EscapedReply, list |-> EscapedList],
            [text |-> RepeatedReply, list |-> <<<<"z">>, <<"y">>>>]}

\* plain-text replies, one entry a line, with the list each was written from
LineInputs == {[text |-> Render(f, l), list |-> l] : f \in LineForms, l \in Lists}

\* replies that are not JSON with a messages array of at least one entry: the
\* array is not closed, holds a number, or is empty
BrokenInputs ==
    {Render(f, l) : f \in BrokenForms, l \in BrokenLists}
      \cup {Render(f, <<>>) : f \in JsonForms}

\* the lines of a text are the stretches between its line feeds; a line is
\* unusable when it is leading characters of the cutset and then whitespace
IsLine(t, i, j) ==
    /\ i = 1 \/ t[i - 1] = "\n"
    /\ j = Len(t) \/ t[j + 1] = "\n"
    /\ \A k \in i..j : t[k] # "\n"

Unusable(t, i, j) ==
    \E m \in (i - 1)..j :
       /\ \A k \in i..m : t[k] \in Cutset
       /\ \A k \in (m + 1)..j : t[k] \in Space

NoUsableLine(t) ==
    \A i \in 1..(Len(t) + 1), j \in 0..Len(t) :
       (i <= j + 1 /\ IsLine(t, i, j)) => Unusable(t, i, j)

\* requestSuggestions has returned from a parse; its locals are still in view
Parsed == pc = "returned" /\ Len(steps) > 0 /\ steps[Len(steps)] = "parse"

(***************************************************************************)
(* C1: a reply that is well-formed JSON {"messages":[...]} with at least   *)
(* one entry that is not blank parses without error to its entries         *)
(* trimmed, blank entries dropped, every later duplicate removed, in the   *)
(* original order; ["a", " a ", "b"] gives ["a", "b"].                     *)
(***************************************************************************)
C1_JsonEntries ==
    Parsed =>
      /\ \A r \in JsonInputs :
           (content = r.text /\ HasEntry(r.list)) =>
             perr = "nil" /\ parsed = Expected(r.list)
      /\ content = Render("json", <<<<"a">>, <<" ", "a", " ">>, <<"b">>>>) =>
           parsed = <<<<"a">>, <<"b">>>>

C1_Witness ==
    /\ Parsed
    /\ content = Render("spaced", <<<<" ">>, <<" ", "x", " ">>, <<"x">>>>)
    /\ parsed = <<<<"x">>>>

(***************************************************************************)
(* C2: the line fallback is used only if the JSON attempt fails or yields  *)
(* zero entries; it strips the leading characters "-0123456789. " of each  *)
(* line, trims it and keeps the non-empty results in order (which are then *)
(* normalized like a JSON result), so "1. add x\n2. fix y" gives           *)
(* ["add x", "fix y"].                                                     *)
(***************************************************************************)
C2_LineFallback ==
    Parsed =>
      /\ \A r \in LineInputs :
           (content = r.text /\ HasEntry(r.list)) =>
             perr = "nil" /\ parsed = Expected(r.list)
      /\ content = NumberedExample =>
           parsed = << <<"a", "d", "d", " ", "x">>, <<"f", "i", "x", " ", "y">> >>
      /\ \A r \in JsonInputs :
           (content = r.text /\ Len(r.list) > 0 /\ ~HasEntry(r.list)) =>
             perr = "nil" /\ parsed = <<>>
      /\ content \in BrokenInputs => perr = "nil" /\ parsed = <<Trimmed(content)>>

C2_Witness ==
    /\ Parsed
    /\ content = NumberedExample
    /\ Len(parsed) = 2

(***************************************************************************)
(* C5: a reply that is not all whitespace, is not JSON with messages and   *)
(* has no usable line fails with "could not parse suggestions"; a reply    *)
(* with neither JSON messages nor a non-empty line is never a success.     *)
(***************************************************************************)
C5_CouldNotParse ==
    Parsed =>
      /\ (~IsBlank(content) /\ NoUsableLine(Trimmed(content))) =>
           perr = "could not parse suggestions" /\ msgs = <<>>
      /\ IsBlank(content) => perr = "empty response from model" /\ msgs = <<>>
      /\ perr = "could not parse suggestions" => NoUsableLine(Trimmed(content))

C5_Witness ==
    /\ Parsed
    /\ content = <<"1", ".", "\n", " ", "2", ".", " ", "\n", "-">>
    /\ perr = "could not parse suggestions"

(***************************************************************************)
(* C6: requestSuggestions returns at most N suggestions whatever the reply *)
(* holds: the first min(N, k) of the k normalized suggestions.             *)
(***************************************************************************)
C6_Truncated ==
    (Parsed /\ perr = "nil") =>
      /\ Len(msgs) <= count
      /\ Len(msgs) = IF Len(parsed) < count THEN Len(parsed) ELSE count
      /\ \A k \in 1..Len(msgs) : msgs[k] = parsed[k]
      /\ IsClean(parsed)

C6_Witness ==
    /\ Parsed
    /\ count = 2
    /\ Len(parsed) = 4
    /\ Len(msgs) = 2

(***************************************************************************)
(* C8: normalizeMessages is idempotent: a normalized list normalizes to    *)
(* itself.                                                                 *)
(***************************************************************************)
C8_Idempotent ==
    (Parsed /\ perr = "nil") => normalizeMessages(parsed) = parsed

C8_Witness ==
    /\ Parsed
    /\ content = Render("json", <<<<"x">>, <<" ", "x", " ">>, <<"y">>>>)
    /\ parsed = <<<<"x">>, <<"y">>>>

(***************************************************************************)
(* What the documentation says of the selector, stated on the line read.   *)
(***************************************************************************)
\* the last line read, trimmed
Entered == Trimmed(line)

\* where the digits of t start: after one sign, if there is one
FirstDigit(t) == IF t # <<>> /\ t[1] \in {"+", "-"} THEN 2 ELSE 1

\* t is an integer: an optional sign and then digits only, at least one
IsInteger(t) ==
    /\ FirstDigit(t) <= Len(t)
    /\ \A k \in FirstDigit(t)..Len(t) : IsDigit(t[k])

\* the end of the longest run of digits after the sign
RunEnd(t) ==
    CHOOSE j \in (FirstDigit(t) - 1)..Len(t) :
       /\ \A k \in FirstDigit(t)..j : IsDigit(t[k])
       /\ j = Len(t) \/ ~IsDigit(t[j + 1])

\* t starts with an integer: that run is not empty
StartsWithInteger(t) == RunEnd(t) >= FirstDigit(t)

\* the integer t starts with
LeadingInteger(t) ==
    LET v[k \in (FirstDigit(t) - 1)..RunEnd(t)] ==
            IF k < FirstDigit(t) THEN 0 ELSE 10 * v[k - 1] + DigitVal(t[k])
    IN  IF t[1] = "-" THEN 0 - v[RunEnd(t)] ELSE v[RunEnd(t)]

IsEditKey(t) == t = <<"e">> \/ t = <<"E">>

\* the selector returned a suggestion of the list
Picked == pc = "commit" /\ ~editing

\* the selector read a line and prompts again
Reprompted == pc = "read" /\ echo # Header /\ line # <<>>

(***************************************************************************)
(* C3, as stated: a suggestion is returned only for a line that is an      *)
(* integer k in 1..count, and every other line that is not "e" prints the  *)
(* invalid-choice message and prompts again.                               *)
(***************************************************************************)
C3_Original ==
    /\ Picked =>
         /\ IsInteger(Entered)
         /\ LeadingInteger(Entered) \in 1..Len(msgs)
         /\ chosen = msgs[LeadingInteger(Entered)]
    /\ Reprompted => echo = Invalid

(***************************************************************************)
(* C3, amended: suggestion k is returned exactly for a line that is not    *)
(* "e" and starts, after an optional sign, with decimal digits whose value *)
(* k is in 1..count (what follows the digits, an underscore included, is   *)
(* ignored); a line that is empty after trimming prompts again without a   *)
(* message; every other line that is not "e" prints the invalid-choice     *)
(* message and prompts again.                                              *)
(***************************************************************************)
C3_Choice ==
    /\ Picked =>
         /\ ~IsEditKey(Entered)
         /\ StartsWithInteger(Entered)
         /\ LeadingInteger(Entered) \in 1..Len(msgs)
         /\ chosen = msgs[LeadingInteger(Entered)]
    /\ Reprompted =>
         /\ ~IsEditKey(Entered)
         /\ ~(StartsWithInteger(Entered) /\ LeadingInteger(Entered) \in 1..Len(msgs))
         /\ echo = IF Entered = <<>> THEN "" ELSE Invalid

C3_Witness ==
    /\ Picked
    /\ Len(msgs) = 3
    /\ line = <<"2", "x", "\n">>
    /\ chosen = msgs[2]

(***************************************************************************)
(* C4: when standard input ends and no line can be read (io.EOF with no    *)
(* characters), chooseMessage and promptEdit return a read error, so the   *)
(* selection ends on every finite input.                                   *)
(***************************************************************************)
C4_EndOfInput ==
    (rerr = "EOF" /\ line = <<>>) =>
      pc = "exit" /\ exit = 1 /\ errmsg = "read input"

(***************************************************************************)
(* C7, as stated: "e" in any letter case switches to edit mode, which      *)
(* prompts again while the lines entered are empty and returns the first   *)
(* non-empty line verbatim; in edit mode no suggestion is returned.        *)
(***************************************************************************)
\* the last line read without its line end
Verbatim ==
    IF line # <<>> /\ line[Len(line)] = "\n"
    THEN SubSeq(line, 1, Len(line) - 1)
    ELSE line

C7_Switch ==
    /\ (pc = "edit" /\ echo = EnterMessage) => editing /\ IsEditKey(Entered)
    /\ (Picked \/ Reprompted) => ~IsEditKey(Entered)
    /\ editing => pc \in {"edit", "commit", "exit"}
    /\ (pc = "edit" /\ echo = "") => Entered = <<>>

C7_Original ==
    /\ C7_Switch
    /\ (pc = "commit" /\ editing) => chosen = Verbatim /\ chosen # <<>>

(***************************************************************************)
(* C7, amended: as stated, but a line counts as empty when it is empty     *)
(* after trimming, and the first line that is not is returned trimmed of   *)
(* its leading and trailing whitespace, otherwise unchanged.               *)
(***************************************************************************)
C7_Edit ==
    /\ C7_Switch
    /\ (pc = "commit" /\ editing) => chosen = Entered /\ chosen # <<>>

C7_Witness ==
    /\ pc = "commit"
    /\ editing
    /\ line = <<" ", "h", "i", " ", "\n">>
    /\ chosen = <<"h", "i">>

(***************************************************************************)
(* What the documentation says of a run, stated on the steps taken: they   *)
(* are taken in the order repository check, staged diff, request, parse,   *)
(* selection, commit; git commit runs at most once and only after every    *)
(* earlier step succeeded; a failure of a step ends the run with status 1  *)
(* and no later step.                                                      *)
(***************************************************************************)
Order == <<"repo", "diff", "stat", "request", "parse", "select", "commit">>

\* the steps taken when the run fails with the message e
StoppedAt(e) ==
    CASE e = "not a git repository" -> <<"repo">>
      [] e \in {"git diff --staged failed",
                "no staged changes (git diff --staged is empty)"} ->
           <<"repo", "diff">>
      [] e = "git diff --staged --stat failed" -> <<"repo", "diff", "stat">>
      [] e \in {"ollama request", "ollama error", "decode response"} ->
           <<"repo", "diff", "stat", "request">>
      [] e \in {"empty response from model", "could not parse suggestions",
                "no suggestions returned"} ->
           <<"repo", "diff", "stat", "request", "parse">>
      [] e = "read input" -> <<"repo", "diff", "stat", "request", "parse", "select">>
      [] e = "git commit failed" -> Order
      [] OTHER -> <<"?">>

C9_Steps ==
    /\ Len(steps) <= Len(Order)
    /\ steps = SubSeq(Order, 1, Len(steps))
    /\ commits = IF steps = Order THEN 1 ELSE 0
    /\ commits = 1 => perr = "nil" /\ msgs # <<>> /\ chosen # <<>>
    /\ Len(steps) >= 6 => perr = "nil"
    /\ pc # "exit" => exit = 0 - 1 /\ errmsg = "" /\ echo # Committed
    /\ pc = "exit" => exit # 0 - 1
    /\ exit = 1 => steps = StoppedAt(errmsg) /\ echo # Committed
    /\ errmsg # "" => exit = 1
    /\ echo = Committed => exit = 0

(***************************************************************************)
(* C9, as stated: the steps as above, and status 0 comes with "Committed:" *)
(* and only after a successful commit.                                     *)
(***************************************************************************)
C9_Original ==
    /\ C9_Steps
    /\ exit = 0 => errmsg = "" /\ echo = Committed /\ steps = Order

(***************************************************************************)
(* C9, amended: the steps as above; the run may also end in flag.Parse,    *)
(* before any step, with the usage printed: with status 0 when help is     *)
(* asked for and with status 2 when the command line is not accepted;      *)
(* status 0 is otherwise reached only with "Committed:" after a successful *)
(* commit.                                                                 *)
(***************************************************************************)
C9_Pipeline ==
    /\ C9_Steps
    /\ pc = "exit" <=> exit \in {0, 1, 2}
    /\ usage => pc = "exit" /\ exit \in {0, 2} /\ steps = <<>> /\ echo = ""
    /\ exit = 2 => usage
    /\ (exit = 0 /\ ~usage) => errmsg = "" /\ echo = Committed /\ steps = Order

C9_Witness ==
    /\ pc = "exit"
    /\ exit = 0
    /\ ~usage
    /\ echo = Committed
    /\ commits = 1

(***************************************************************************)
(* C10: whatever the -n flag and the reply, the list chooseMessage gets    *)
(* has 1 to 3 entries, at most the clamped count, each non-empty, trimmed  *)
(* and distinct; a parse that normalizes to no entry ends the run with     *)
(* "no suggestions returned" before the selector.                          *)
(***************************************************************************)
C10_SelectorList ==
    /\ (pc = "choose" \/ Len(steps) >= 6) =>
         /\ count \in 1..3
         /\ Len(msgs) \in 1..3
         /\ Len(msgs) <= count
         /\ IsClean(msgs)
    /\ (pc = "exit" /\ Len(steps) = 5 /\ perr = "nil") =>
         msgs = <<>> /\ exit = 1 /\ errmsg = "no suggestions returned"
    /\ (Len(steps) = 5 /\ perr = "nil" /\ msgs = <<>>) => pc \in {"returned", "exit"}

C10_Witness ==
    /\ pc = "choose"
    /\ count = 3
    /\ msgs = <<<<"a">>, <<"b">>, <<"c">>>>

====
